---- MODULE Spec2Model ----
(***************************************************************************)
(* Session engine of the Gemini terminal assistant (src/bin/index.js).     *)
(*                                                                         *)
(* Text is a sequence of one-character strings.  A file on disk is a       *)
(* sequence of bytes; an ASCII byte is written as its character and the    *)
(* four non-ASCII bytes the model uses are the tokens "xFF", "xEF", "xBF"  *)
(* and "xBD".  The decoded replacement character U+FFFD is "uFFFD".        *)
(***************************************************************************)
EXTENDS Integers, Sequences, FiniteSets, TLC

\* ------------------------------------------------------------------------
\* Bounds
\* ------------------------------------------------------------------------

\* how many times other processes may change the file system during a run
MaxEnv == 1

\* longest suggestion history the earlier revision is followed to
MaxHistory == 3

\* successful overwrites counted; further ones leave the count there
MaxOverwrites == 2

\* ------------------------------------------------------------------------
\* String primitives of the JavaScript runtime
\* ------------------------------------------------------------------------

UpperChars ==
  << "A","B","C","D","E","F","G","H","I","J","K","L","M",
     "N","O","P","Q","R","S","T","U","V","W","X","Y","Z" >>

LowerChars ==
  << "a","b","c","d","e","f","g","h","i","j","k","l","m",
     "n","o","p","q","r","s","t","u","v","w","x","y","z" >>

WhiteSpace == {" ", "\n", "\t", "\r"}

ToLowerChar(c) ==
  IF \E i \in 1..Len(UpperChars) : UpperChars[i] = c
  THEN LowerChars[CHOOSE i \in 1..Len(UpperChars) : UpperChars[i] = c]
  ELSE c

\* String.prototype.toLowerCase
toLowerCase(s) == [i \in 1..Len(s) |-> ToLowerChar(s[i])]

Max(S) == CHOOSE i \in S : \A j \in S : j <= i

Min(S) == CHOOSE i \in S : \A j \in S : i <= j

\* is the text p found in s at position i (1-based)
IsAt(s, i, p) ==
  /\ i >= 1
  /\ i + Len(p) - 1 <= Len(s)
  /\ SubSeq(s, i, i + Len(p) - 1) = p

\* String.prototype.includes
includes(s, p) == \E i \in 1..(Len(s) - Len(p) + 1) : IsAt(s, i, p)

\* String.prototype.startsWith
startsWith(s, p) == IsAt(s, 1, p)

\* String.prototype.slice(n): the text after the first n characters
slice(s, n) == SubSeq(s, n + 1, Len(s))

\* String.prototype.trim
trim(s) ==
  LET keep == {i \in 1..Len(s) : s[i] \notin WhiteSpace}
  IN  IF keep = {} THEN << >>
      ELSE LET lo == CHOOSE i \in keep : \A j \in keep : i <= j
               hi == CHOOSE i \in keep : \A j \in keep : j <= i
           IN  SubSeq(s, lo, hi)

\* the proper prefixes of a byte sequence: what a write that fails after the
\* file was opened and truncated can leave behind
ProperPrefixes(s) == {SubSeq(s, 1, n) : n \in 0..(Len(s) - 1)}

\* ------------------------------------------------------------------------
\* UTF-8 decoding on read and encoding on write
\* ------------------------------------------------------------------------

HighBytes == {"xFF", "xEF", "xBF", "xBD"}

Replacement == "uFFFD"

ReplacementBytes == <<"xEF", "xBF", "xBD">>

\* fs.readFileSync(path, "utf-8"): bytes to text.  A well-formed EF BF BD is
\* U+FFFD; every maximal ill-formed part is replaced by one U+FFFD.
RECURSIVE Utf8Decode(_)
Utf8Decode(b) ==
  IF b = << >> THEN << >>
  ELSE IF b[1] \notin HighBytes THEN <<b[1]>> \o Utf8Decode(Tail(b))
  ELSE IF IsAt(b, 1, ReplacementBytes)
       THEN <<Replacement>> \o Utf8Decode(SubSeq(b, 4, Len(b)))
  ELSE IF IsAt(b, 1, <<"xEF", "xBF">>)
       THEN <<Replacement>> \o Utf8Decode(SubSeq(b, 3, Len(b)))
  ELSE <<Replacement>> \o Utf8Decode(Tail(b))

\* fs.writeFileSync(path, text): text to bytes (default encoding utf8)
RECURSIVE Utf8Encode(_)
Utf8Encode(t) ==
  IF t = << >> THEN << >>
  ELSE IF t[1] = Replacement THEN ReplacementBytes \o Utf8Encode(Tail(t))
  ELSE <<t[1]>> \o Utf8Encode(Tail(t))

\* ------------------------------------------------------------------------
\* extractCodeFromResponse
\* ------------------------------------------------------------------------

\* the backquote character (the module language has no literal for it)
Backquote == "BACKQUOTE"

Fence == <<Backquote, Backquote, Backquote>>

\* the alternatives of the language group, in the order the regex tries them
LanguageTags ==
  << <<"j","a","v","a","s","c","r","i","p","t">>,
     <<"j","s">>,
     <<"n","o","d","e">>,
     <<"j","s","x">>,
     <<"t","y","p","e","s","c","r","i","p","t">>,
     <<"t","s">>,
     <<"p","y","t","h","o","n">>,
     <<"p","y">> >>

\* positions where the regex can match: an opening fence with a closing
\* fence somewhere after it
FenceStarts(text) ==
  {i \in 1..Len(text) :
     /\ IsAt(text, i, Fence)
     /\ \E j \in (i + 3)..Len(text) : IsAt(text, j, Fence)}

\* the capture group of the leftmost match
FenceCapture(text) ==
  LET i    == CHOOSE a \in FenceStarts(text) :
                 \A b \in FenceStarts(text) : a <= b
      tags == {n \in 1..Len(LanguageTags) : IsAt(text, i + 3, LanguageTags[n])}
      tag  == IF tags = {} THEN << >>
              ELSE LanguageTags[CHOOSE n \in tags : \A m \in tags : n <= m]
      k    == i + 3 + Len(tag)
      from == IF k <= Len(text) /\ text[k] = "\n" THEN k + 1 ELSE k
      ends == {e \in from..Len(text) :
                 \/ IsAt(text, e, Fence)
                 \/ (text[e] = "\n" /\ IsAt(text, e + 1, Fence))}
      to   == CHOOSE e \in ends : \A f \in ends : e <= f
  IN  SubSeq(text, from, to - 1)

extractCodeFromResponse(text) ==
  IF FenceStarts(text) # {} THEN trim(FenceCapture(text)) ELSE trim(text)

\* ------------------------------------------------------------------------
\* Paths and the file system
\* ------------------------------------------------------------------------

\* process.cwd()
cwd == <<"/", "w">>

\* path.resolve(process.cwd(), filePath) for the path shapes the session is
\* given: empty, ".", absolute, or a name relative to the working directory
pathResolve(filePath) ==
  IF filePath = << >> \/ filePath = <<".">> THEN cwd
  ELSE IF filePath[1] = "/" THEN filePath
  ELSE cwd \o <<"/">> \o filePath

\* path.basename: the last portion of the path, trailing slashes ignored
basename(p) ==
  LET solid == {i \in 1..Len(p) : p[i] # "/"}
  IN  IF solid = {} THEN << >>
      ELSE LET end     == Max(solid)
               slashes == {i \in 1..end : p[i] = "/"}
               start   == IF slashes = {} THEN 1 ELSE Max(slashes) + 1
           IN  SubSeq(p, start, end)

\* path.dirname: the text before the slash that precedes the last portion
dirname(p) ==
  LET cuts == {i \in 2..Len(p) :
                 p[i] = "/" /\ \E j \in (i + 1)..Len(p) : p[j] # "/"}
  IN  IF cuts = {}
        THEN IF p # << >> /\ p[1] = "/" THEN <<"/">> ELSE <<".">>
      ELSE IF p[1] = "/" /\ Max(cuts) = 2 THEN <<"/", "/">>
      ELSE SubSeq(p, 1, Max(cuts) - 1)

\* the non-empty portions of a path between slashes
RECURSIVE Segments(_)
Segments(p) ==
  LET slashes == {i \in 1..Len(p) : p[i] = "/"}
  IN  IF p = << >> THEN << >>
      ELSE IF slashes = {} THEN <<p>>
      ELSE LET i    == Min(slashes)
               head == SubSeq(p, 1, i - 1)
               rest == Segments(SubSeq(p, i + 1, Len(p)))
           IN  IF head = << >> THEN rest ELSE <<head>> \o rest

\* "." portions dropped, ".." portions resolved, for an absolute path
RECURSIVE Normal(_)
Normal(segs) ==
  IF segs = << >> THEN << >>
  ELSE LET init == Normal(SubSeq(segs, 1, Len(segs) - 1))
           last == segs[Len(segs)]
       IN  IF last = <<".">> THEN init
           ELSE IF last = <<".", ".">>
             THEN IF init = << >> THEN << >>
                  ELSE SubSeq(init, 1, Len(init) - 1)
           ELSE Append(init, last)

RECURSIVE Slashed(_)
Slashed(segs) ==
  IF segs = << >> THEN << >>
  ELSE <<"/">> \o segs[1] \o Slashed(Tail(segs))

Absolute(segs) == IF segs = << >> THEN <<"/">> ELSE Slashed(segs)

\* path.resolve(from, to) with from absolute
resolve(from, to) ==
  Absolute(Normal(IF to # << >> /\ to[1] = "/"
                    THEN Segments(to)
                    ELSE Segments(from) \o Segments(to)))

\* path.join(dir, name) with dir absolute
join(dir, name) == Absolute(Normal(Segments(dir) \o Segments(name)))

\* path.relative(from, to) with both absolute
relative(from, to) ==
  LET f    == Segments(from)
      t    == Segments(to)
      k    == Max({n \in 0..Min({Len(f), Len(t)}) :
                     SubSeq(f, 1, n) = SubSeq(t, 1, n)})
      ups  == [i \in 1..(Len(f) - k) |-> <<".", ".">>]
      segs == ups \o SubSeq(t, k + 1, Len(t))
  IN  IF segs = << >> THEN << >> ELSE Tail(Slashed(segs))

BackupSuffix == <<".", "b", "a", "c", "k", "u", "p">>

\* lastAnalyzedFile + ".backup"
backupPath(p) == p \o BackupSuffix

\* the sample file, a name that does not exist, and the sample's backup
SampleName  == <<"a">>
MissingName == <<"m">>
SamplePath  == pathResolve(SampleName)
MissingPath == pathResolve(MissingName)

FsPaths == {cwd, SamplePath, backupPath(SamplePath), MissingPath}

Missing == [kind |-> "missing", bytes |-> << >>]
Dir     == [kind |-> "dir", bytes |-> << >>]
File(b) == [kind |-> "file", bytes |-> b]

\* contents the sample file may have when the program starts: plain ASCII,
\* and a file holding a byte that is not valid UTF-8
InitBytes == { <<"x">>, <<"x", "xFF">> }

\* what another process may put at a path while the session runs
EnvEntries == { Missing, Dir, File(<<"z">>) }

\* null
NoFile == <<"null">>

\* ------------------------------------------------------------------------
\* Input lines, arguments and replies the model draws from
\* ------------------------------------------------------------------------

KwExit      == <<"e","x","i","t">>
KwOverwrite == <<"o","v","e","r","w","r","i","t","e">>
KwCheckfile == <<"c","h","e","c","k","f","i","l","e"," ">>
KwFile      == <<"f","i","l","e"," ">>
KwDebug     == <<"d","e","b","u","g"," ">>

Lines ==
  { KwExit,
    <<"E","x","I","T">>,
    <<"e","x","i","t","i","n","g">>,
    KwOverwrite,
    <<"O","V","E","R","W","R","I","T","E">>,
    KwOverwrite \o <<" ","n","o","w">>,
    KwCheckfile \o SampleName,
    <<"C","h","e","c","k","F","i","l","e"," "," ">> \o SampleName \o <<" ">>,
    KwCheckfile \o MissingName,
    KwCheckfile,
    KwFile \o SampleName,
    KwFile \o MissingName,
    <<"D","e","b","u","g"," ">> \o SampleName,
    KwDebug \o MissingName,
    <<"h","i">> }

\* process.argv.slice(2) values with a path or a question
ArgPaths == { SampleName, MissingName, <<".">> }

ArgQuestions == { <<"h","i">> }

\* response texts of the remote model
Replies ==
  { <<" ","y","\n">>,
    Fence \o <<"j","s","\n","y","\n">> \o Fence,
    <<"p","\n">> \o Fence \o <<"\n","y","\n">> \o Fence \o <<"\n","q">> }

\* language tags a reply may put after its opening fence: those the regular
\* expression lists, and others a model uses for the files it is given
ReplyTags ==
  { << >> } \cup {LanguageTags[n] : n \in 1..Len(LanguageTags)}
    \cup { <<"h","t","m","l">>, <<"c">> }

ReplyBodies == { <<"y">>, <<" ","y"," ","\n">>, <<"y","\n","z">> }

\* replies with a fenced block: text before, fence, tag, line end, body,
\* closing fence (after a line end, directly, or missing), text after
FencedReplies ==
  { pre \o Fence \o tag \o <<"\n">> \o body \o close \o post :
      pre   \in { << >>, <<"p","\n">> },
      tag   \in ReplyTags,
      body  \in ReplyBodies,
      close \in { Fence, <<"\n">> \o Fence, << >> },
      post  \in { << >>, <<"\n","q">>,
                  <<"\n">> \o Fence \o <<"\n","z","\n">> \o Fence } }

\* response texts the extraction is followed on
ExtractReplies ==
  FencedReplies
    \cup { Fence \o <<" ","y"," ">> \o Fence,
           <<" ","y","\n">>,
           <<"y","\n","z">>,
           << >> }

\* ------------------------------------------------------------------------
\* The earlier revision with a suggestion history: data
\* ------------------------------------------------------------------------

\* Array.prototype.reverse
Reverse(s) == [i \in 1..Len(s) |-> s[Len(s) + 1 - i]]

\* Array.prototype.unshift
unshift_Replace(arr, item) == <<item>>

unshift(arr, item) == <<item>> \o arr

\* [...new Set(s)]: first occurrences, in order
RECURSIVE Dedup(_)
Dedup(s) ==
  IF s = << >> THEN << >>
  ELSE LET init == Dedup(SubSeq(s, 1, Len(s) - 1))
           last == s[Len(s)]
       IN  IF \E i \in 1..Len(init) : init[i] = last THEN init
           ELSE Append(init, last)

\* new inquirer.Separator(...): an object, equal to no text
Separator == <<"SEPARATOR">>

\* the input argument before the user has typed anything
Undefined == <<"undefined">>

\* directory entries of the earlier revision's file system
TreeFile       == [kind |-> "file", files |-> << >>]
TreeDir(files) == [kind |-> "dir", files |-> files]
TreeNoAccess   == [kind |-> "noaccess", files |-> << >>]

SubDirName  == <<"d">>
SubFileName == <<"b">>
SubDirPath  == resolve(cwd, SubDirName)
SubFilePath == join(SubDirPath, SubFileName)
SubFileRel  == SubDirName \o <<"/">> \o SubFileName
Greeting    == <<"h", "i">>

\* file systems the earlier revision may run in: a readable subdirectory,
\* an unreadable one, and a plain file where the subdirectory would be
Trees ==
  { (cwd :> TreeDir(<<SubDirName, Greeting>>))
      @@ (SubDirPath :> TreeDir(<<SubFileName>>))
      @@ (SubFilePath :> TreeFile)
      @@ (resolve(cwd, Greeting) :> TreeFile),
    (cwd :> TreeDir(<<SubDirName>>)) @@ (SubDirPath :> TreeNoAccess),
    (cwd :> TreeDir(<<SubDirName>>)) @@ (SubDirPath :> TreeFile) }

\* questions typed or given as arguments
HistoryQuestions == { Greeting, <<"O", "h">>, SubFileRel }

\* lines typed at the prompt of the earlier revision
HistoryLines ==
  HistoryQuestions \cup
  { KwExit,
    <<"E", "x", "i", "t">>,
    KwCheckfile \o SubFileRel,
    KwCheckfile \o SubDirName,
    KwCheckfile \o MissingName }

HistoryArgPaths == { SubFileRel, SubDirName, MissingName }

\* partial inputs the suggestion source is called with
Inputs ==
  { Undefined,
    << >>,
    <<"h">>,
    <<"H">>,
    SubFileRel,
    SubDirName \o <<"/", "B">>,
    SubDirName \o <<"/">>,
    <<"x", "/", "y">>,
    SubDirName \o <<"\\">> \o SubFileName }

NoSaves == [count |-> 0, first |-> Missing]

NoTurn == [variant |-> "none", question |-> << >>, caller |-> "none",
           outcome |-> "none"]

NoSuggestions == [called |-> FALSE, input |-> << >>, listing |-> "skipped",
                  files |-> << >>, history |-> << >>, result |-> << >>]

\* ------------------------------------------------------------------------
\* State
\* ------------------------------------------------------------------------

VARIABLES
  pc,                \* where the process is: "main", "prompt" (awaiting an
                     \* input line), "remote" (awaiting chat.sendMessage),
                     \* "confirmDebug", "confirmSave", "exited"
  outer,             \* the try block chatMode was awaited in: "none",
                     \* "checkFile" or "debugFile"
  caller,            \* who called the handler of this turn: "main", "chatMode"
  handler,           \* the function awaiting the remote call or confirmation
  lastAnalyzedFile,  \* the module variable of that name
  fs,                \* the file system: path -> entry
  content,           \* local of the running handler: the text read
  rewrittenCode,     \* local of handleOverwrite
  viaDebug,          \* handleOverwrite was called by debugFile
  reply,             \* result.response.text() of the last resolved call
  cmd,               \* the command of this turn and the line it came from
  calls,             \* messages sent to the remote service in this turn
  writes,            \* file writes attempted in this turn, in order
  shouldSave,        \* answer to the save confirmation in this turn
  errors,            \* diagnostics printed in this turn
  exitCode,          \* process exit status, -1 while running
  fsStart,           \* the file system when this turn started
  envTouched,        \* another process changed the file system in this turn
  envSteps,          \* number of changes made by other processes
  saved              \* the successful overwrites so far: how many, and what
                     \* the file held right before the first of them

\* state of the earlier revision (src/unnamed/part_001)
VARIABLES
  chatHistory,       \* the module variable of that name
  asked,             \* the questions answered so far, in the order asked
  hpc,               \* where the earlier revision is: "off", "main",
                     \* "prompt", "remote" (awaiting generateContent),
                     \* "exited"
  hturn,             \* the command of this turn and how it ended
  tree,              \* its file system: path -> entry
  suggestions        \* the last call of the suggestion source

sessionVars ==
  << pc, outer, caller, handler, lastAnalyzedFile, fs, content, rewrittenCode,
     viaDebug, reply, cmd, calls, writes, shouldSave, errors, exitCode,
     fsStart, envTouched, envSteps, saved >>

histVars == << chatHistory, asked, hpc, hturn, tree, suggestions >>

vars == << sessionVars, histVars >>

\* the earlier revision is not running
HistoryOff ==
  /\ chatHistory = << >>
  /\ asked = << >>
  /\ hpc = "off"
  /\ hturn = NoTurn
  /\ tree = (cwd :> TreeDir(<< >>))
  /\ suggestions = NoSuggestions

Variants == {"Exit", "Overwrite", "CheckFile", "Debug", "AddFileContext", "Ask"}

AwaitPoints == {"prompt", "remote", "confirmDebug", "confirmSave"}

\* fs.existsSync
existsSync(p) == p \in DOMAIN fs /\ fs[p].kind # "missing"

\* fs.readFileSync(p, "utf-8") returns for a regular file and throws for a
\* directory
Readable(p) == p \in DOMAIN fs /\ fs[p].kind = "file"

readFileSync(p) == Utf8Decode(fs[p].bytes)

\* fs.writeFileSync(p, text): the results it can have.  It succeeds, or it
\* throws with the file as it was (open failed), or it throws after the file
\* was truncated and part of the data was written.
WriteResults(f, p, text) ==
  LET data == Utf8Encode(text)
  IN  IF f[p].kind = "dir"
      THEN { [ok |-> FALSE, entry |-> f[p]] }
      ELSE { [ok |-> TRUE, entry |-> File(data)],
             [ok |-> FALSE, entry |-> f[p]] }
           \cup { [ok |-> FALSE, entry |-> File(b)] : b \in ProperPrefixes(data) }

Message(kind, file, text) == [kind |-> kind, file |-> file, content |-> text]

Init ==
  /\ pc = "main"
  /\ outer = "none"
  /\ caller = "main"
  /\ handler = "none"
  /\ lastAnalyzedFile = NoFile
  /\ \E b \in InitBytes :
       fs = [p \in FsPaths |->
               IF p = cwd THEN Dir
               ELSE IF p = SamplePath THEN File(b)
               ELSE Missing]
  /\ content = << >>
  /\ rewrittenCode = << >>
  /\ viaDebug = FALSE
  /\ reply = << >>
  /\ cmd = [variant |-> "none", line |-> << >>]
  /\ calls = << >>
  /\ writes = << >>
  /\ shouldSave = "none"
  /\ errors = << >>
  /\ exitCode = -1
  /\ fsStart = fs
  /\ envTouched = FALSE
  /\ envSteps = 0
  /\ saved = NoSaves
  /\ HistoryOff

\* ------------------------------------------------------------------------
\* Control transfers
\* ------------------------------------------------------------------------

\* the while loop of chatMode reaches inquirer.prompt again
NextPrompt == pc' = "prompt" /\ UNCHANGED <<outer, exitCode>>

\* chatMode() is called from inside the try block of o (or from main)
EnterChatMode(o) == pc' = "prompt" /\ outer' = o /\ UNCHANGED exitCode

Await(p) == pc' = p /\ UNCHANGED <<outer, exitCode>>

ProcessExit(code) == pc' = "exited" /\ exitCode' = code /\ UNCHANGED outer

\* a handler called by `from` returns without having started chatMode:
\* the loop goes on, or main() returns and the process ends
ReturnTo(from) == IF from = "chatMode" THEN NextPrompt ELSE ProcessExit(0)

\* an exception leaves a handler called by `from`.  Out of main() it is an
\* unhandled rejection.  Out of chatMode() it reaches the catch block of the
\* function that awaited chatMode(), which prints it and returns to main().
Escape(from, errs) ==
  IF from = "chatMode" /\ outer = "checkFile"
    THEN errors' = Append(errs, "Error analyzing file") /\ ProcessExit(0)
  ELSE IF from = "chatMode" /\ outer = "debugFile"
    THEN errors' = Append(errs, "Error debugging file") /\ ProcessExit(0)
  ELSE errors' = errs /\ ProcessExit(1)

\* a new turn starts
StartTurn(variant, line) ==
  /\ cmd' = [variant |-> variant, line |-> line]
  /\ fsStart' = fs
  /\ envTouched' = FALSE
  /\ shouldSave' = "none"
  /\ writes' = << >>

\* ------------------------------------------------------------------------
\* Handlers, up to their first await
\* ------------------------------------------------------------------------

askQuestion(question, from) ==
  /\ caller' = from
  /\ handler' = "askQuestion"
  /\ viaDebug' = FALSE
  /\ calls' = <<Message("ask", << >>, question)>>
  /\ errors' = << >>
  /\ UNCHANGED <<lastAnalyzedFile, fs, content, rewrittenCode, reply, envSteps>>
  /\ Await("remote")

\* a variant that records the path before it checks that the file exists
ReadAndSend_RecordFirst(name, kind, filePath, from) ==
  LET absPath == pathResolve(filePath)
  IN  /\ caller' = from
      /\ handler' = name
      /\ viaDebug' = FALSE
      /\ lastAnalyzedFile' = absPath
      /\ UNCHANGED <<fs, rewrittenCode, reply, envSteps>>
      /\ IF ~existsSync(absPath)
         THEN /\ errors' = <<"File not found">>
              /\ calls' = << >>
              /\ UNCHANGED content
              /\ ReturnTo(from)
         ELSE IF ~Readable(absPath)
         THEN /\ calls' = << >>
              /\ UNCHANGED content
              /\ Escape(from, << >>)
         ELSE /\ content' = readFileSync(absPath)
              /\ calls' = <<Message(kind, filePath, content')>>
              /\ errors' = << >>
              /\ Await("remote")

\* the read-and-record step shared by checkFile, debugFile and the "file "
\* branch of chatMode, which differ in the message they send
ReadAndSend(name, kind, filePath, from) ==
  LET absPath == pathResolve(filePath)
  IN  /\ caller' = from
      /\ handler' = name
      /\ viaDebug' = FALSE
      /\ UNCHANGED <<fs, rewrittenCode, reply, envSteps>>
      /\ IF ~existsSync(absPath)
         THEN /\ errors' = <<"File not found">>
              /\ calls' = << >>
              /\ UNCHANGED <<lastAnalyzedFile, content>>
              /\ ReturnTo(from)
         ELSE IF ~Readable(absPath)
         THEN /\ calls' = << >>
              /\ UNCHANGED <<lastAnalyzedFile, content>>
              /\ Escape(from, << >>)
         ELSE /\ content' = readFileSync(absPath)
              /\ lastAnalyzedFile' = absPath
              /\ calls' = <<Message(kind, filePath, content')>>
              /\ errors' = << >>
              /\ Await("remote")

checkFile(filePath, from) == ReadAndSend("checkFile", "analyze", filePath, from)

debugFile(filePath, from) == ReadAndSend("debugFile", "debug", filePath, from)

addFileContext(filePath) ==
  ReadAndSend("addFileContext", "context", filePath, "chatMode")

\* where control goes when handleOverwrite returns: to the loop, or back into
\* debugFile, which starts chatMode if continueChat is set
AfterOverwrite(from) ==
  IF from = "debugFile" /\ caller = "main"
  THEN EnterChatMode("debugFile")
  ELSE NextPrompt

\* debugFile after the operator declined, same continuation
AfterDebug == AfterOverwrite("debugFile")

\* a variant without the check that the recorded file still exists
handleOverwrite_NoExistsCheck(from, callsIn, errorsIn) ==
  /\ handler' = "handleOverwrite"
  /\ viaDebug' = (from = "debugFile")
  /\ UNCHANGED <<lastAnalyzedFile, fs, rewrittenCode, reply, envSteps>>
  /\ IF lastAnalyzedFile = NoFile
     THEN /\ errors' = Append(errorsIn, "No file has been analyzed yet")
          /\ calls' = callsIn
          /\ UNCHANGED content
          /\ AfterOverwrite(from)
     ELSE IF ~Readable(lastAnalyzedFile)
     THEN /\ calls' = callsIn
          /\ UNCHANGED content
          /\ IF from = "debugFile"
             THEN /\ errors' = Append(errorsIn, "Error debugging file")
                  /\ ReturnTo(caller)
             ELSE Escape("chatMode", errorsIn)
     ELSE /\ content' = readFileSync(lastAnalyzedFile)
          /\ calls' = Append(callsIn,
                        Message("rewrite", basename(lastAnalyzedFile), content'))
          /\ errors' = errorsIn
          /\ Await("remote")

\* a variant that sends the text the earlier handler read
handleOverwrite_CachedContent(from, callsIn, errorsIn) ==
  /\ handler' = "handleOverwrite"
  /\ viaDebug' = (from = "debugFile")
  /\ UNCHANGED <<lastAnalyzedFile, fs, rewrittenCode, reply, envSteps>>
  /\ IF lastAnalyzedFile = NoFile
     THEN /\ errors' = Append(errorsIn, "No file has been analyzed yet")
          /\ calls' = callsIn
          /\ UNCHANGED content
          /\ AfterOverwrite(from)
     ELSE IF ~existsSync(lastAnalyzedFile)
     THEN /\ errors' = Append(errorsIn, "Previously analyzed file not found")
          /\ calls' = callsIn
          /\ UNCHANGED content
          /\ AfterOverwrite(from)
     ELSE /\ UNCHANGED content
          /\ calls' = Append(callsIn,
                        Message("rewrite", basename(lastAnalyzedFile), content))
          /\ errors' = errorsIn
          /\ Await("remote")

handleOverwrite(from, callsIn, errorsIn) ==
  /\ handler' = "handleOverwrite"
  /\ viaDebug' = (from = "debugFile")
  /\ UNCHANGED <<lastAnalyzedFile, fs, rewrittenCode, reply, envSteps>>
  /\ IF lastAnalyzedFile = NoFile
     THEN /\ errors' = Append(errorsIn, "No file has been analyzed yet")
          /\ calls' = callsIn
          /\ UNCHANGED content
          /\ AfterOverwrite(from)
     ELSE IF ~existsSync(lastAnalyzedFile)
     THEN /\ errors' = Append(errorsIn, "Previously analyzed file not found")
          /\ calls' = callsIn
          /\ UNCHANGED content
          /\ AfterOverwrite(from)
     ELSE IF ~Readable(lastAnalyzedFile)
     THEN /\ calls' = callsIn
          /\ UNCHANGED content
          /\ IF from = "debugFile"
             THEN /\ errors' = Append(errorsIn, "Error debugging file")
                  /\ ReturnTo(caller)
             ELSE Escape("chatMode", errorsIn)
     ELSE /\ content' = readFileSync(lastAnalyzedFile)
          /\ calls' = Append(callsIn,
                        Message("rewrite", basename(lastAnalyzedFile), content'))
          /\ errors' = errorsIn
          /\ Await("remote")

\* ------------------------------------------------------------------------
\* main
\* ------------------------------------------------------------------------

mainChat ==
  /\ UNCHANGED histVars
  /\ UNCHANGED saved
  /\ pc = "main"
  /\ EnterChatMode("none")
  /\ UNCHANGED <<caller, handler, lastAnalyzedFile, fs, content, rewrittenCode,
                 viaDebug, reply, cmd, calls, writes, shouldSave, errors,
                 fsStart, envTouched, envSteps>>

mainCheckFile ==
  /\ UNCHANGED histVars
  /\ UNCHANGED saved
  /\ pc = "main"
  /\ \E p \in ArgPaths :
       /\ StartTurn("CheckFile", << >>)
       /\ checkFile(p, "main")

mainDebug ==
  /\ UNCHANGED histVars
  /\ UNCHANGED saved
  /\ pc = "main"
  /\ \E p \in ArgPaths :
       /\ StartTurn("Debug", << >>)
       /\ debugFile(p, "main")

mainAsk ==
  /\ UNCHANGED histVars
  /\ UNCHANGED saved
  /\ pc = "main"
  /\ \E q \in ArgQuestions :
       /\ StartTurn("Ask", << >>)
       /\ askQuestion(q, "main")

\* ------------------------------------------------------------------------
\* chatMode: one input line
\* ------------------------------------------------------------------------

\* question.toLowerCase(), computed once for each line
LowerOf == [question \in Lines |-> toLowerCase(question)]

\* a variant that matches the keyword as a prefix
IsExit_Prefix(question) == startsWith(LowerOf[question], KwExit)

IsExit(question) == LowerOf[question] = KwExit

IsOverwrite(question) == LowerOf[question] = KwOverwrite

IsCheckfile(question) == startsWith(LowerOf[question], KwCheckfile)

IsFile(question) == startsWith(LowerOf[question], KwFile)

\* a variant in which the exit line does not leave the loop
chatModeExit_NoBreak ==
  /\ UNCHANGED histVars
  /\ UNCHANGED saved
  /\ pc = "prompt"
  /\ \E question \in Lines :
       /\ IsExit(question)
       /\ StartTurn("Exit", question)
       /\ calls' = << >>
       /\ errors' = << >>
       /\ NextPrompt
       /\ UNCHANGED <<caller, handler, lastAnalyzedFile, fs, content,
                      rewrittenCode, viaDebug, reply, envSteps>>

chatModeExit ==
  /\ UNCHANGED histVars
  /\ UNCHANGED saved
  /\ pc = "prompt"
  /\ \E question \in Lines :
       /\ IsExit(question)
       /\ StartTurn("Exit", question)
       /\ calls' = << >>
       /\ errors' = << >>
       /\ ProcessExit(0)
       /\ UNCHANGED <<caller, handler, lastAnalyzedFile, fs, content,
                      rewrittenCode, viaDebug, reply, envSteps>>

chatModeOverwrite ==
  /\ UNCHANGED histVars
  /\ UNCHANGED saved
  /\ pc = "prompt"
  /\ \E question \in Lines :
       /\ ~IsExit(question)
       /\ IsOverwrite(question)
       /\ StartTurn("Overwrite", question)
       /\ caller' = "chatMode"
       /\ handleOverwrite("chatMode", << >>, << >>)

chatModeCheckfile ==
  /\ UNCHANGED histVars
  /\ UNCHANGED saved
  /\ pc = "prompt"
  /\ \E question \in Lines :
       /\ ~IsExit(question)
       /\ ~IsOverwrite(question)
       /\ IsCheckfile(question)
       /\ StartTurn("CheckFile", question)
       /\ checkFile(trim(slice(question, Len(KwCheckfile))), "chatMode")

chatModeFile ==
  /\ UNCHANGED histVars
  /\ UNCHANGED saved
  /\ pc = "prompt"
  /\ \E question \in Lines :
       /\ ~IsExit(question)
       /\ ~IsOverwrite(question)
       /\ ~IsCheckfile(question)
       /\ IsFile(question)
       /\ StartTurn("AddFileContext", question)
       /\ addFileContext(trim(slice(question, Len(KwFile))))

chatModeAsk ==
  /\ UNCHANGED histVars
  /\ UNCHANGED saved
  /\ pc = "prompt"
  /\ \E question \in Lines :
       /\ ~IsExit(question)
       /\ ~IsOverwrite(question)
       /\ ~IsCheckfile(question)
       /\ ~IsFile(question)
       /\ StartTurn("Ask", question)
       /\ askQuestion(question, "chatMode")

\* ------------------------------------------------------------------------
\* The remote call settles
\* ------------------------------------------------------------------------

OverwriteCaller == IF viaDebug THEN "debugFile" ELSE "chatMode"

\* the response text is kept only by handleOverwrite; the other handlers
\* print it
sendMessageResolves ==
  /\ UNCHANGED histVars
  /\ UNCHANGED saved
  /\ pc = "remote"
  /\ \E r \in Replies :
       /\ reply' = IF handler = "handleOverwrite" THEN r ELSE reply
       /\ UNCHANGED <<caller, handler, lastAnalyzedFile, fs, content, viaDebug,
                      cmd, calls, writes, shouldSave, errors, fsStart,
                      envTouched, envSteps>>
       /\ CASE handler = "askQuestion" ->
                 /\ UNCHANGED rewrittenCode
                 /\ IF caller = "main" THEN EnterChatMode("none") ELSE NextPrompt
            [] handler = "checkFile" ->
                 /\ UNCHANGED rewrittenCode
                 /\ IF caller = "main"
                    THEN EnterChatMode("checkFile")
                    ELSE NextPrompt
            [] handler = "debugFile" ->
                 /\ UNCHANGED rewrittenCode
                 /\ Await("confirmDebug")
            [] handler = "addFileContext" ->
                 /\ UNCHANGED rewrittenCode
                 /\ NextPrompt
            [] handler = "handleOverwrite" ->
                 /\ rewrittenCode' = extractCodeFromResponse(r)
                 /\ Await("confirmSave")

\* a variant in which a failed analysis drops the recorded path
sendMessageRejects_ForgetFile ==
  /\ UNCHANGED histVars
  /\ UNCHANGED saved
  /\ pc = "remote"
  /\ UNCHANGED <<caller, handler, fs, content, rewrittenCode,
                 viaDebug, reply, cmd, calls, writes, shouldSave, fsStart,
                 envTouched, envSteps>>
  /\ lastAnalyzedFile' = IF handler = "handleOverwrite" \/ handler = "askQuestion"
                           THEN lastAnalyzedFile ELSE NoFile
  /\ CASE handler = "askQuestion" ->
            /\ errors' = Append(errors, "Error: ")
            /\ IF caller = "main" THEN EnterChatMode("none") ELSE NextPrompt
       [] handler = "checkFile" ->
            /\ errors' = Append(errors, "Error analyzing file")
            /\ ReturnTo(caller)
       [] handler = "debugFile" ->
            /\ errors' = Append(errors, "Error debugging file")
            /\ ReturnTo(caller)
       [] handler = "addFileContext" ->
            /\ errors' = Append(errors, "Error adding file context")
            /\ NextPrompt
       [] handler = "handleOverwrite" ->
            /\ errors' = Append(errors, "Error generating improved code")
            /\ AfterOverwrite(OverwriteCaller)

sendMessageRejects ==
  /\ UNCHANGED histVars
  /\ UNCHANGED saved
  /\ pc = "remote"
  /\ UNCHANGED <<caller, handler, lastAnalyzedFile, fs, content, rewrittenCode,
                 viaDebug, reply, cmd, calls, writes, shouldSave, fsStart,
                 envTouched, envSteps>>
  /\ CASE handler = "askQuestion" ->
            /\ errors' = Append(errors, "Error: ")
            /\ IF caller = "main" THEN EnterChatMode("none") ELSE NextPrompt
       [] handler = "checkFile" ->
            /\ errors' = Append(errors, "Error analyzing file")
            /\ ReturnTo(caller)
       [] handler = "debugFile" ->
            /\ errors' = Append(errors, "Error debugging file")
            /\ ReturnTo(caller)
       [] handler = "addFileContext" ->
            /\ errors' = Append(errors, "Error adding file context")
            /\ NextPrompt
       [] handler = "handleOverwrite" ->
            /\ errors' = Append(errors, "Error generating improved code")
            /\ AfterOverwrite(OverwriteCaller)

\* ------------------------------------------------------------------------
\* Confirmations
\* ------------------------------------------------------------------------

\* "Would you like to overwrite this file with improved code?"
confirmOverwrite ==
  /\ UNCHANGED histVars
  /\ UNCHANGED saved
  /\ pc = "confirmDebug"
  /\ UNCHANGED <<caller, cmd, writes, shouldSave, fsStart, envTouched>>
  /\ \E shouldOverwrite \in BOOLEAN :
       IF shouldOverwrite
       THEN handleOverwrite("debugFile", calls, errors)
       ELSE /\ AfterDebug
            /\ UNCHANGED <<handler, lastAnalyzedFile, fs, content,
                           rewrittenCode, viaDebug, reply, calls, errors,
                           envSteps>>

\* the record of overwrites after one that replaced the entry `before`
Overwrote(before) ==
  [count |-> Min({saved.count + 1, MaxOverwrites}),
   first |-> IF saved.count = 0 THEN before ELSE saved.first]

\* a variant of the save that goes on to write the file after the backup
\* write failed
SaveWrites_IgnoreBackupFailure ==
  LET target == lastAnalyzedFile
      backup == backupPath(lastAnalyzedFile)
  IN  \E rb \in WriteResults(fs, backup, content) :
        LET fs1 == [fs EXCEPT ![backup] = rb.entry]
            w1  == Append(writes, [path |-> backup, ok |-> rb.ok])
        IN  \E rf \in WriteResults(fs1, target, rewrittenCode) :
              /\ fs' = [fs1 EXCEPT ![target] = rf.entry]
              /\ writes' = Append(w1, [path |-> target, ok |-> rf.ok])
              /\ errors' = IF rb.ok /\ rf.ok THEN errors
                           ELSE Append(errors, "Error generating improved code")
              /\ saved' = IF rb.ok /\ rf.ok THEN Overwrote(fs1[target])
                          ELSE saved

\* a variant that puts the backup at a path built from the name typed, not
\* next to the analyzed file
SaveWrites_BackupElsewhere ==
  LET target == lastAnalyzedFile
      backup == MissingPath
  IN  \E rb \in WriteResults(fs, backup, content) :
        LET fs1 == [fs EXCEPT ![backup] = rb.entry]
            w1  == Append(writes, [path |-> backup, ok |-> rb.ok])
        IN  IF ~rb.ok
            THEN /\ fs' = fs1
                 /\ writes' = w1
                 /\ errors' = Append(errors, "Error generating improved code")
                 /\ UNCHANGED saved
            ELSE \E rf \in WriteResults(fs1, target, rewrittenCode) :
                   /\ fs' = [fs1 EXCEPT ![target] = rf.entry]
                   /\ writes' = Append(w1, [path |-> target, ok |-> rf.ok])
                   /\ errors' = IF rf.ok THEN errors
                                ELSE Append(errors,
                                            "Error generating improved code")
                   /\ saved' = IF rf.ok THEN Overwrote(fs1[target])
                               ELSE saved

\* a variant that leaves a backup that is already there as it is
SaveWrites_KeepExistingBackup ==
  LET target == lastAnalyzedFile
      backup == backupPath(lastAnalyzedFile)
      kept   == { [ok |-> TRUE, entry |-> fs[backup]] }
  IN  \E rb \in IF fs[backup].kind = "file" THEN kept
                 ELSE WriteResults(fs, backup, content) :
        LET fs1 == [fs EXCEPT ![backup] = rb.entry]
            w1  == Append(writes, [path |-> backup, ok |-> rb.ok])
        IN  IF ~rb.ok
            THEN /\ fs' = fs1
                 /\ writes' = w1
                 /\ errors' = Append(errors, "Error generating improved code")
                 /\ UNCHANGED saved
            ELSE \E rf \in WriteResults(fs1, target, rewrittenCode) :
                   /\ fs' = [fs1 EXCEPT ![target] = rf.entry]
                   /\ writes' = Append(w1, [path |-> target, ok |-> rf.ok])
                   /\ errors' = IF rf.ok THEN errors
                                ELSE Append(errors,
                                            "Error generating improved code")
                   /\ saved' = IF rf.ok THEN Overwrote(fs1[target])
                               ELSE saved

\* a variant that backs up what the file holds when the save is confirmed
SaveWrites_BackupFromDisk ==
  LET target == lastAnalyzedFile
      backup == backupPath(lastAnalyzedFile)
      held   == IF fs[target].kind = "file"
                  THEN Utf8Decode(fs[target].bytes)
                  ELSE content
  IN  \E rb \in WriteResults(fs, backup, held) :
        LET fs1 == [fs EXCEPT ![backup] = rb.entry]
            w1  == Append(writes, [path |-> backup, ok |-> rb.ok])
        IN  IF ~rb.ok
            THEN /\ fs' = fs1
                 /\ writes' = w1
                 /\ errors' = Append(errors, "Error generating improved code")
                 /\ UNCHANGED saved
            ELSE \E rf \in WriteResults(fs1, target, rewrittenCode) :
                   /\ fs' = [fs1 EXCEPT ![target] = rf.entry]
                   /\ writes' = Append(w1, [path |-> target, ok |-> rf.ok])
                   /\ errors' = IF rf.ok THEN errors
                                ELSE Append(errors,
                                            "Error generating improved code")
                   /\ saved' = IF rf.ok THEN Overwrote(fs1[target])
                               ELSE saved

\* the two writes of a confirmed save, in the order the code makes them
SaveWrites ==
  LET target == lastAnalyzedFile
      backup == backupPath(lastAnalyzedFile)
  IN  \E rb \in WriteResults(fs, backup, content) :
        LET fs1 == [fs EXCEPT ![backup] = rb.entry]
            w1  == Append(writes, [path |-> backup, ok |-> rb.ok])
        IN  IF ~rb.ok
            THEN /\ fs' = fs1
                 /\ writes' = w1
                 /\ errors' = Append(errors, "Error generating improved code")
                 /\ UNCHANGED saved
            ELSE \E rf \in WriteResults(fs1, target, rewrittenCode) :
                   /\ fs' = [fs1 EXCEPT ![target] = rf.entry]
                   /\ writes' = Append(w1, [path |-> target, ok |-> rf.ok])
                   /\ errors' = IF rf.ok THEN errors
                                ELSE Append(errors,
                                            "Error generating improved code")
                   /\ saved' = IF rf.ok THEN Overwrote(fs1[target])
                               ELSE saved

\* a variant that saves whatever the operator answers
confirmSave_IgnoreAnswer ==
  /\ UNCHANGED histVars
  /\ pc = "confirmSave"
  /\ UNCHANGED <<caller, handler, lastAnalyzedFile, content, rewrittenCode,
                 viaDebug, reply, cmd, calls, fsStart, envTouched, envSteps>>
  /\ AfterOverwrite(OverwriteCaller)
  /\ \E answer \in BOOLEAN :
       /\ shouldSave' = IF answer THEN "yes" ELSE "no"
       /\ SaveWrites

\* a variant that makes the backup before it looks at the answer
confirmSave_BackupOnDecline ==
  /\ UNCHANGED histVars
  /\ pc = "confirmSave"
  /\ UNCHANGED <<caller, handler, lastAnalyzedFile, content, rewrittenCode,
                 viaDebug, reply, cmd, calls, fsStart, envTouched, envSteps>>
  /\ AfterOverwrite(OverwriteCaller)
  /\ \E answer \in BOOLEAN :
       /\ shouldSave' = IF answer THEN "yes" ELSE "no"
       /\ IF answer
          THEN SaveWrites
          ELSE /\ fs' = [fs EXCEPT ![backupPath(lastAnalyzedFile)] =
                                     File(Utf8Encode(content))]
               /\ UNCHANGED <<writes, errors, saved>>

\* "Save this improved code to <fileName>?"
confirmSave ==
  /\ UNCHANGED histVars
  /\ pc = "confirmSave"
  /\ UNCHANGED <<caller, handler, lastAnalyzedFile, content, rewrittenCode,
                 viaDebug, reply, cmd, calls, fsStart, envTouched, envSteps>>
  /\ AfterOverwrite(OverwriteCaller)
  /\ \E answer \in BOOLEAN :
       /\ shouldSave' = IF answer THEN "yes" ELSE "no"
       /\ IF answer
          THEN SaveWrites
          ELSE UNCHANGED <<fs, writes, errors, saved>>

\* ------------------------------------------------------------------------
\* Interrupt and other processes
\* ------------------------------------------------------------------------

\* process.on("SIGINT"): the handler runs when the process is idle in an await
SIGINT ==
  /\ UNCHANGED histVars
  /\ UNCHANGED saved
  /\ pc \in AwaitPoints
  /\ ProcessExit(0)
  /\ UNCHANGED <<caller, handler, lastAnalyzedFile, fs, content, rewrittenCode,
                 viaDebug, reply, cmd, calls, writes, shouldSave, errors,
                 fsStart, envTouched, envSteps>>

\* another process removes, replaces or creates the sample file
EnvChange ==
  /\ UNCHANGED histVars
  /\ UNCHANGED saved
  /\ pc \in AwaitPoints
  /\ envSteps < MaxEnv
  /\ \E p \in {SamplePath}, e \in EnvEntries :
       /\ fs[p] # e
       /\ fs' = [fs EXCEPT ![p] = e]
  /\ envTouched' = TRUE
  /\ envSteps' = envSteps + 1
  /\ UNCHANGED <<pc, outer, caller, handler, lastAnalyzedFile, content,
                 rewrittenCode, viaDebug, reply, cmd, calls, writes,
                 shouldSave, errors, exitCode, fsStart>>

Next ==
  \/ mainChat
  \/ mainCheckFile
  \/ mainDebug
  \/ mainAsk
  \/ chatModeExit
  \/ chatModeOverwrite
  \/ chatModeCheckfile
  \/ chatModeFile
  \/ chatModeAsk
  \/ sendMessageResolves
  \/ sendMessageRejects
  \/ confirmOverwrite
  \/ confirmSave
  \/ SIGINT
  \/ EnvChange

Spec == Init /\ [][Next]_vars

TypeOK ==
  /\ pc \in {"main", "exited"} \cup AwaitPoints
  /\ outer \in {"none", "checkFile", "debugFile"}
  /\ caller \in {"main", "chatMode"}
  /\ lastAnalyzedFile \in {NoFile} \cup FsPaths
  /\ lastAnalyzedFile # NoFile => backupPath(lastAnalyzedFile) \in FsPaths
  /\ exitCode \in {-1, 0, 1}
  /\ envSteps \in 0..MaxEnv

\* ------------------------------------------------------------------------
\* The earlier revision with a suggestion history: the suggestion source
\* ------------------------------------------------------------------------

\* fs.promises.readdir: the names in a directory, or a rejection
readdir(absDir) ==
  IF absDir \in DOMAIN tree /\ tree[absDir].kind = "dir"
    THEN [ok |-> TRUE, files |-> tree[absDir].files]
    ELSE [ok |-> FALSE, files |-> << >>]

includesSeparator(input) ==
  includes(input, <<"/">>) \/ includes(input, <<"\\">>)

\* the body of the try block: the entries of the input's directory whose
\* name contains the input's last portion, as paths relative to cwd
matchingFiles(input) ==
  LET absDir == resolve(cwd, dirname(input))
      listed == readdir(absDir)
      wanted == toLowerCase(basename(input))
      kept   == SelectSeq(listed.files,
                          LAMBDA file : includes(toLowerCase(file), wanted))
  IN  [ok    |-> listed.ok,
       files |-> [i \in 1..Len(kept) |->
                    relative(cwd, join(absDir, kept[i]))]]

\* a variant that lists the directory whatever the input holds
fileSuggestions_AlwaysList(input) ==
  LET m == matchingFiles(input)
  IN  [listing |-> IF m.ok THEN "listed" ELSE "failed", files |-> m.files]

\* fileSuggestions when the source returns; the catch block leaves it empty
fileSuggestions(input) ==
  IF includesSeparator(input)
    THEN LET m == matchingFiles(input)
         IN  [listing |-> IF m.ok THEN "listed" ELSE "failed",
              files   |-> m.files]
    ELSE [listing |-> "skipped", files |-> << >>]

historySuggestions(input) ==
  Reverse(SelectSeq(chatHistory,
                    LAMBDA item : includes(toLowerCase(item),
                                           toLowerCase(input))))

\* a variant that returns the two groups without the separator
source_NoSeparator(typed) ==
  LET input == IF typed = Undefined THEN << >> ELSE typed
      h     == historySuggestions(input)
      f     == fileSuggestions(input)
      allSuggestions == Dedup(f.files \o h)
  IN  [called  |-> TRUE,
       input   |-> input,
       listing |-> f.listing,
       files   |-> f.files,
       history |-> h,
       result  |-> IF f.files # << >> /\ h # << >>
                     THEN f.files \o h
                     ELSE allSuggestions]

\* the source callback of the autocomplete prompt
source(typed) ==
  LET input == IF typed = Undefined THEN << >> ELSE typed
      h     == historySuggestions(input)
      f     == fileSuggestions(input)
      allSuggestions == Dedup(f.files \o h)
  IN  [called  |-> TRUE,
       input   |-> input,
       listing |-> f.listing,
       files   |-> f.files,
       history |-> h,
       result  |-> IF f.files # << >> /\ h # << >>
                     THEN f.files \o <<Separator>> \o h
                     ELSE allSuggestions]

\* ------------------------------------------------------------------------
\* The earlier revision: handlers and steps
\* ------------------------------------------------------------------------

\* a handler called by `from` returns: the loop goes on, or main() returns
HistoryReturnTo(from) ==
  hpc' = IF from = "chatMode" THEN "prompt" ELSE "exited"

historyAskQuestion(question, from) ==
  /\ Len(chatHistory) < MaxHistory
  /\ hturn' = [variant |-> "Ask", question |-> question, caller |-> from,
               outcome |-> "pending"]
  /\ hpc' = "remote"

historyCheckFile(filePath, from) ==
  LET absPath == resolve(cwd, filePath)
      turn(o) == [variant |-> "CheckFile", question |-> filePath,
                  caller |-> from, outcome |-> o]
  IN  IF absPath \notin DOMAIN tree
        THEN hturn' = turn("notfound") /\ HistoryReturnTo(from)
      ELSE IF tree[absPath].kind # "file"
        THEN hturn' = turn("threw") /\ hpc' = "exited"
      ELSE hturn' = turn("pending") /\ hpc' = "remote"

historyMainCheckFile ==
  /\ hpc = "main"
  /\ \E filePath \in HistoryArgPaths : historyCheckFile(filePath, "main")
  /\ UNCHANGED <<chatHistory, asked, tree, suggestions>>
  /\ UNCHANGED sessionVars

historyMainAsk ==
  /\ hpc = "main"
  /\ \E question \in HistoryQuestions : historyAskQuestion(question, "main")
  /\ UNCHANGED <<chatHistory, asked, tree, suggestions>>
  /\ UNCHANGED sessionVars

historyMainChat ==
  /\ hpc = "main"
  /\ hpc' = "prompt"
  /\ UNCHANGED <<chatHistory, asked, hturn, tree, suggestions>>
  /\ UNCHANGED sessionVars

\* the prompt calls the source with what has been typed so far
promptSource ==
  /\ hpc = "prompt"
  /\ \E typed \in Inputs : suggestions' = source(typed)
  /\ UNCHANGED <<chatHistory, asked, hpc, hturn, tree>>
  /\ UNCHANGED sessionVars

historyExit ==
  /\ hpc = "prompt"
  /\ \E question \in HistoryLines :
       /\ toLowerCase(question) = KwExit
       /\ hturn' = [variant |-> "Exit", question |-> question,
                    caller |-> "chatMode", outcome |-> "none"]
  /\ hpc' = "exited"
  /\ suggestions' = NoSuggestions
  /\ UNCHANGED <<chatHistory, asked, tree>>
  /\ UNCHANGED sessionVars

historyCheckfile ==
  /\ hpc = "prompt"
  /\ \E question \in HistoryLines :
       /\ toLowerCase(question) # KwExit
       /\ startsWith(toLowerCase(question), KwCheckfile)
       /\ historyCheckFile(trim(slice(question, Len(KwCheckfile))),
                           "chatMode")
  /\ suggestions' = NoSuggestions
  /\ UNCHANGED <<chatHistory, asked, tree>>
  /\ UNCHANGED sessionVars

historyAsk ==
  /\ hpc = "prompt"
  /\ \E question \in HistoryLines :
       /\ toLowerCase(question) # KwExit
       /\ ~startsWith(toLowerCase(question), KwCheckfile)
       /\ historyAskQuestion(question, "chatMode")
  /\ suggestions' = NoSuggestions
  /\ UNCHANGED <<chatHistory, asked, tree>>
  /\ UNCHANGED sessionVars

\* model.generateContent resolves and the response is printed
generateContentResolves ==
  /\ hpc = "remote"
  /\ hturn' = [hturn EXCEPT !.outcome = "resolved"]
  /\ IF hturn.variant = "Ask"
       THEN /\ chatHistory' = unshift(chatHistory, hturn.question)
            /\ asked' = Append(asked, hturn.question)
       ELSE UNCHANGED <<chatHistory, asked>>
  /\ HistoryReturnTo(hturn.caller)
  /\ UNCHANGED <<tree, suggestions>>
  /\ UNCHANGED sessionVars

\* model.generateContent rejects: the catch block prints the error
generateContentRejects ==
  /\ hpc = "remote"
  /\ hturn' = [hturn EXCEPT !.outcome = "rejected"]
  /\ HistoryReturnTo(hturn.caller)
  /\ UNCHANGED <<chatHistory, asked, tree, suggestions>>
  /\ UNCHANGED sessionVars

\* the session of the later revision is not running
SessionOff ==
  /\ pc = "off"
  /\ outer = "none"
  /\ caller = "main"
  /\ handler = "none"
  /\ lastAnalyzedFile = NoFile
  /\ fs = [p \in FsPaths |-> Missing]
  /\ content = << >>
  /\ rewrittenCode = << >>
  /\ viaDebug = FALSE
  /\ reply = << >>
  /\ cmd = [variant |-> "none", line |-> << >>]
  /\ calls = << >>
  /\ writes = << >>
  /\ shouldSave = "none"
  /\ errors = << >>
  /\ exitCode = -1
  /\ fsStart = fs
  /\ envTouched = FALSE
  /\ envSteps = 0
  /\ saved = NoSaves

InitHistory ==
  /\ SessionOff
  /\ chatHistory = << >>
  /\ asked = << >>
  /\ hpc = "main"
  /\ hturn = NoTurn
  /\ tree \in Trees
  /\ suggestions = NoSuggestions

NextHistory ==
  \/ historyMainCheckFile
  \/ historyMainAsk
  \/ historyMainChat
  \/ promptSource
  \/ historyExit
  \/ historyCheckfile
  \/ historyAsk
  \/ generateContentResolves
  \/ generateContentRejects

SpecHistory == InitHistory /\ [][NextHistory]_vars

\* ------------------------------------------------------------------------
\* The overwrite from the resolved rewrite call on, for any response text
\* ------------------------------------------------------------------------

\* "checkfile a" then "overwrite" were typed: handleOverwrite awaits the
\* reply to its rewrite prompt
RewritePending ==
  /\ pc = "remote"
  /\ outer = "none"
  /\ caller = "chatMode"
  /\ handler = "handleOverwrite"
  /\ lastAnalyzedFile = SamplePath
  /\ fs = [p \in FsPaths |->
             IF p = cwd THEN Dir
             ELSE IF p = SamplePath THEN File(<<"x">>)
             ELSE Missing]
  /\ content = <<"x">>
  /\ rewrittenCode = << >>
  /\ viaDebug = FALSE
  /\ reply = << >>
  /\ cmd = [variant |-> "Overwrite", line |-> KwOverwrite]
  /\ calls = <<Message("rewrite", SampleName, <<"x">>)>>
  /\ writes = << >>
  /\ shouldSave = "none"
  /\ errors = << >>
  /\ exitCode = -1
  /\ fsStart = fs
  /\ envTouched = FALSE
  /\ envSteps = 0
  /\ saved = NoSaves

InitExtract == RewritePending /\ HistoryOff

\* chat.sendMessage of handleOverwrite resolves with some response text
overwriteResponse ==
  /\ UNCHANGED histVars
  /\ UNCHANGED saved
  /\ pc = "remote"
  /\ handler = "handleOverwrite"
  /\ \E r \in ExtractReplies :
       /\ reply' = r
       /\ rewrittenCode' = extractCodeFromResponse(r)
  /\ Await("confirmSave")
  /\ UNCHANGED <<caller, handler, lastAnalyzedFile, fs, content, viaDebug,
                 cmd, calls, writes, shouldSave, errors, fsStart, envTouched,
                 envSteps>>

NextExtract ==
  \/ overwriteResponse
  \/ confirmSave

SpecExtract == InitExtract /\ [][NextExtract]_vars

\* ------------------------------------------------------------------------
\* Properties of the overwrite workflow
\* ------------------------------------------------------------------------

Last(q) == q[Len(q)]

\* the file the running overwrite works on, and its backup
Target == lastAnalyzedFile

Backup == backupPath(lastAnalyzedFile)

BackupFailed ==
  \E i \in 1..Len(writes) : writes[i].path = Backup /\ ~writes[i].ok

\* C1: in handleOverwrite a write to the analyzed file is attempted only
\* right after the backup write of the same invocation succeeded; when the
\* backup write fails no write to the file is attempted and, other processes
\* aside, the file holds what it held when the turn started.
C1_BackupBeforeOverwrite ==
  /\ \A i \in 1..Len(writes) :
       writes[i].path = Target =>
         /\ i > 1
         /\ writes[i - 1] = [path |-> Backup, ok |-> TRUE]
  /\ BackupFailed =>
       /\ \A i \in 1..Len(writes) : writes[i].path # Target
       /\ ~envTouched => fs[Target] = fsStart[Target]

\* a save was confirmed, its backup write failed part-way, the loop went on
C1_Witness ==
  /\ pc = "prompt"
  /\ shouldSave = "yes"
  /\ writes = <<[path |-> Backup, ok |-> FALSE]>>
  /\ fs[Backup] # fsStart[Backup]

SaveSucceeded ==
  /\ shouldSave = "yes"
  /\ writes = <<[path |-> Backup, ok |-> TRUE], [path |-> Target, ok |-> TRUE]>>

\* C2: after a successful overwrite of F with prior content C (no other
\* process interfering), F.backup is a file whose bytes are exactly C and F
\* holds the code body extracted from the reply.
C2_BackupEqualsPrior ==
  (SaveSucceeded /\ ~envTouched) =>
    /\ fs[Backup].kind = "file"
    /\ fs[Backup].bytes = fsStart[Target].bytes
    /\ fs[Target].kind = "file"
    /\ Utf8Decode(fs[Target].bytes) = extractCodeFromResponse(reply)

InOverwriteWorkflow ==
  /\ cmd.variant \in {"Overwrite", "Debug"}
  /\ lastAnalyzedFile # NoFile
  /\ fsStart[Target].kind = "file"

\* C3: in every state of the overwrite workflow (no other process
\* interfering) the content F held when the workflow started is still held
\* by F or, in full, by F.backup.
C3_OriginalAvailable ==
  (InOverwriteWorkflow /\ ~envTouched) =>
    \/ fs[Target] = fsStart[Target]
    \/ fs[Backup] = fsStart[Target]

\* C4: a file is written in a turn only when the operator answered yes to
\* the save confirmation of that turn's handleOverwrite, which is asked after
\* the rewrite call returned; otherwise the session changes no file.
C4_NoWriteWithoutConfirmation ==
  /\ shouldSave # "yes" =>
       /\ writes = << >>
       /\ ~envTouched => fs = fsStart
  /\ shouldSave = "yes" =>
       /\ handler = "handleOverwrite"
       /\ calls # << >>
       /\ Last(calls).kind = "rewrite"

\* the overwrite reached through debugFile wrote after a confirmed save
C4_Witness ==
  /\ viaDebug
  /\ shouldSave = "yes"
  /\ Len(writes) = 2
  /\ fs # fsStart

\* C5: when the operator declines the save confirmation (no other process
\* interfering) every file, the analyzed file and its backup included, is as
\* it was when the turn started.
C5_DeclineLeavesFiles ==
  (shouldSave = "no" /\ ~envTouched) =>
    /\ fs = fsStart
    /\ writes = << >>

\* debug, confirmed the first prompt, declined the save
C5_Witness ==
  /\ viaDebug
  /\ shouldSave = "no"
  /\ pc = "prompt"
  /\ cmd.variant = "Debug"

\* a step in which handleOverwrite is called: the overwrite command, or the
\* first confirmation of debugFile answered yes
OverwriteInvoked ==
  \/ chatModeOverwrite
  \/ (confirmOverwrite /\ handler' = "handleOverwrite")

RewriteCalls(c) == {i \in 1..Len(c) : c[i].kind = "rewrite"}

\* C6: when handleOverwrite is called with no analyzed file recorded, or with
\* a recorded path that no longer exists, the step sends no message to the
\* remote service, writes no file, keeps lastAnalyzedFile and ends at the
\* prompt of the session loop.
C6_OverwriteWithoutFile ==
  [][ (/\ OverwriteInvoked
       /\ (lastAnalyzedFile = NoFile \/ ~existsSync(lastAnalyzedFile)))
      => /\ RewriteCalls(calls') = {}
         /\ Len(calls') <= Len(calls)
         /\ writes' = << >>
         /\ fs' = fs
         /\ lastAnalyzedFile' = lastAnalyzedFile
         /\ pc' = "prompt"
         /\ exitCode' = -1 ]_vars

\* the overwrite command found the recorded file gone and the loop went on
C6_Witness ==
  /\ pc = "prompt"
  /\ cmd.variant = "Overwrite"
  /\ lastAnalyzedFile = SamplePath
  /\ ~existsSync(lastAnalyzedFile)
  /\ errors = <<"Previously analyzed file not found">>
  /\ calls = << >>

\* ------------------------------------------------------------------------
\* Properties of the dispatch
\* ------------------------------------------------------------------------

\* the two texts are equal up to letter case
EqualsIgnoreCase(a, b) ==
  /\ Len(a) = Len(b)
  /\ \A i \in 1..Len(a) : ToLowerChar(a[i]) = ToLowerChar(b[i])

\* text a starts with keyword k, up to letter case
StartsWithIgnoreCase(a, k) ==
  /\ Len(a) >= Len(k)
  /\ EqualsIgnoreCase(SubSeq(a, 1, Len(k)), k)

\* the turn was started by an input line of the session
InSession == cmd.line # << >>

\* how many of the dispatch branches of chatMode take the line
BranchesTaking(q) ==
  Cardinality(
    { b \in 1..5 :
        \/ b = 1 /\ IsExit(q)
        \/ b = 2 /\ ~IsExit(q) /\ IsOverwrite(q)
        \/ b = 3 /\ ~IsExit(q) /\ ~IsOverwrite(q) /\ IsCheckfile(q)
        \/ b = 4 /\ ~IsExit(q) /\ ~IsOverwrite(q) /\ ~IsCheckfile(q)
                 /\ IsFile(q)
        \/ b = 5 /\ ~IsExit(q) /\ ~IsOverwrite(q) /\ ~IsCheckfile(q)
                 /\ ~IsFile(q) })

\* C7: every input line is routed to exactly one command variant; the
\* keyword is matched without regard to letter case; Exit and Overwrite are
\* taken exactly when the whole line is the keyword, so a longer line that
\* starts with the keyword ("exiting", "overwrite now") is an Ask.
C7_RoutingTotalAndExact ==
  /\ \A q \in Lines : BranchesTaking(q) = 1
  /\ InSession =>
       /\ cmd.variant \in Variants
       /\ cmd.variant = "Exit" <=> EqualsIgnoreCase(cmd.line, KwExit)
       /\ cmd.variant = "Overwrite" <=> EqualsIgnoreCase(cmd.line, KwOverwrite)
       /\ cmd.variant = "CheckFile" <=> StartsWithIgnoreCase(cmd.line, KwCheckfile)
       /\ cmd.variant = "AddFileContext" <=> StartsWithIgnoreCase(cmd.line, KwFile)
       /\ ( /\ StartsWithIgnoreCase(cmd.line, KwExit)
            /\ Len(cmd.line) > Len(KwExit) ) => cmd.variant = "Ask"
       /\ ( /\ StartsWithIgnoreCase(cmd.line, KwOverwrite)
            /\ Len(cmd.line) > Len(KwOverwrite) ) => cmd.variant = "Ask"

\* the line "exiting" was sent to the remote service as a question
C7_Witness ==
  /\ cmd = [variant |-> "Ask", line |-> <<"e","x","i","t","i","n","g">>]
  /\ pc = "remote"
  /\ calls = <<Message("ask", << >>, cmd.line)>>

\* C8: an input line that starts with "debug " in any letter case is
\* classified as Debug and is not sent to the remote service as a question.
C8_DebugLineRunsDebug ==
  (InSession /\ StartsWithIgnoreCase(cmd.line, KwDebug)) =>
    /\ cmd.variant = "Debug"
    /\ \A i \in 1..Len(calls) : calls[i].kind # "ask"

\* C9: lastAnalyzedFile is unset or an absolute path, and a step changes it
\* only in a CheckFile, Debug or AddFileContext turn, to the resolved path of
\* the file named, which exists and whose text the step has read.
C9_LastAnalyzedFile ==
  [][ /\ lastAnalyzedFile' # NoFile => lastAnalyzedFile'[1] = "/"
      /\ lastAnalyzedFile' # lastAnalyzedFile =>
           /\ cmd'.variant \in {"CheckFile", "Debug", "AddFileContext"}
           /\ existsSync(lastAnalyzedFile')
           /\ Readable(lastAnalyzedFile')
           /\ content' = Utf8Decode(fs[lastAnalyzedFile'].bytes)
           /\ calls' # << >>
           /\ lastAnalyzedFile' = pathResolve(calls'[1].file)
           /\ pc' = "remote" ]_vars

\* the "file " command recorded the sample file
C9_Witness ==
  /\ lastAnalyzedFile = SamplePath
  /\ cmd.variant = "AddFileContext"
  /\ handler = "addFileContext"
  /\ pc = "remote"

\* C10: a turn started by an input line ends the process only through the
\* Exit command or the interrupt; every other outcome of a handler leads back
\* to the prompt.
C10_LoopSurvivesFailures ==
  [][ (pc # "exited" /\ pc' = "exited" /\ caller' = "chatMode")
      => (chatModeExit \/ SIGINT) ]_vars

\* ------------------------------------------------------------------------
\* Properties of the session loop
\* ------------------------------------------------------------------------

\* a step of chatMode that takes one input line
LineDispatched ==
  \/ chatModeExit
  \/ chatModeOverwrite
  \/ chatModeCheckfile
  \/ chatModeFile
  \/ chatModeAsk

\* the line is keyword kw followed by a path that does not exist now
NamesMissingPath(line, kw) ==
  /\ StartsWithIgnoreCase(line, kw)
  /\ ~existsSync(pathResolve(trim(slice(line, Len(kw)))))

\* C11: an input line that is a CheckFile, Debug or AddFileContext command
\* naming a path that does not exist sends nothing to the remote service,
\* writes no file, keeps lastAnalyzedFile and ends at the prompt.
C11_MissingPathIsLocal ==
  [][ (/\ LineDispatched
       /\ \E kw \in {KwCheckfile, KwDebug, KwFile} :
            NamesMissingPath(cmd'.line, kw))
      => /\ calls' = << >>
         /\ writes' = << >>
         /\ fs' = fs
         /\ lastAnalyzedFile' = lastAnalyzedFile
         /\ pc' = "prompt" ]_vars

\* the same for the two commands chatMode has a branch for
C11_CheckfileAndFileOnly ==
  [][ (/\ LineDispatched
       /\ \E kw \in {KwCheckfile, KwFile} :
            NamesMissingPath(cmd'.line, kw))
      => /\ calls' = << >>
         /\ writes' = << >>
         /\ fs' = fs
         /\ lastAnalyzedFile' = lastAnalyzedFile
         /\ pc' = "prompt"
         /\ errors' = <<"File not found">> ]_vars

\* the process ended in the turn main() started for its arguments
EndedInMainTurn ==
  /\ pc # "exited"
  /\ pc' = "exited"
  /\ cmd'.line = << >>

\* C12: started with `checkfile <path>` or `debug <path>`, the process does
\* not end (other than by an interrupt) before chatMode has been entered,
\* whatever the outcome of the action.
C12_LoopEnteredAfterArgs ==
  [][ (EndedInMainTurn /\ cmd'.variant \in {"CheckFile", "Debug"})
      => (outer' # "none" \/ SIGINT) ]_vars

\* C13: when a remote call fails no further message is sent in that turn and
\* the next thing the session does is prompt for a new input line.
C13_NoRetryThenPrompt ==
  [][ sendMessageRejects => (calls' = calls /\ pc' = "prompt") ]_vars

\* the part of C13 about resending: a failed call is followed by no call
C13_NoRetry ==
  [][ sendMessageRejects => (calls' = calls /\ pc' \in {"prompt", "exited"}) ]_vars

\* C14: an Exit line ends the process with status 0 without a remote call or
\* a file write; an interrupt can be taken at every await, a remote call in
\* flight included, and ends the process with status 0; once the process has
\* ended nothing more happens.
C14_ExitAndInterrupt ==
  [][ /\ pc # "exited"
      /\ (LineDispatched /\ EqualsIgnoreCase(cmd'.line, KwExit)) =>
           /\ pc' = "exited"
           /\ exitCode' = 0
           /\ calls' = << >>
           /\ writes' = << >>
           /\ fs' = fs
      /\ SIGINT => (pc' = "exited" /\ exitCode' = 0 /\ calls' = calls /\ fs' = fs)
      /\ (pc \in AwaitPoints) => (ENABLED SIGINT) ]_vars

\* the session was ended by an Exit line typed after an analysis
C14_Witness ==
  /\ cmd.variant = "Exit"
  /\ pc = "exited"
  /\ exitCode = 0
  /\ lastAnalyzedFile = SamplePath

\* ------------------------------------------------------------------------
\* Properties of the suggestion source and its history
\* ------------------------------------------------------------------------

\* the candidate texts of a result, the separator left out
Texts(result) == SelectSeq(result, LAMBDA item : item # Separator)

NoRepeat(s) == \A i, j \in 1..Len(s) : i # j => s[i] # s[j]

Matches(item, input) == includes(toLowerCase(item), toLowerCase(input))

\* C15: the sequence the suggestion source returns holds no candidate text
\* twice, whatever the history and the partial input, also when a text is
\* both a file candidate and a history candidate and when the history holds
\* a question more than once.
C15_NoDuplicateSuggestions ==
  suggestions.called => NoRepeat(Texts(suggestions.result))

\* C16: the history candidates of the suggestion source are the questions
\* answered so far that contain the partial input as a case-insensitive
\* substring, the most recently asked first.
C16_HistoryMostRecentFirst ==
  suggestions.called =>
    suggestions.history =
      SelectSeq(Reverse(asked),
                LAMBDA item : Matches(item, suggestions.input))

\* the part of C16 that does not depend on the order
C16_HistoryCandidatesMatch ==
  suggestions.called =>
    /\ \A i \in 1..Len(suggestions.history) :
         /\ \E k \in 1..Len(asked) : asked[k] = suggestions.history[i]
         /\ Matches(suggestions.history[i], suggestions.input)
    /\ \A k \in 1..Len(asked) :
         Matches(asked[k], suggestions.input) =>
           \E i \in 1..Len(suggestions.history) :
             suggestions.history[i] = asked[k]

\* C17: with both groups non-empty the source returns all file candidates,
\* then exactly one separator, then all history candidates; with a group
\* empty it returns the deduplicated union and no separator.
C17_SeparatorBetweenGroups ==
  suggestions.called =>
    LET f == suggestions.files
        h == suggestions.history
        r == suggestions.result
    IN  IF f # << >> /\ h # << >>
          THEN /\ r = f \o <<Separator>> \o h
               /\ Cardinality({i \in 1..Len(r) : r[i] = Separator}) = 1
          ELSE /\ r = Dedup(f \o h)
               /\ \A i \in 1..Len(r) : r[i] # Separator

C17_Witness ==
  /\ suggestions.called
  /\ suggestions.files # << >>
  /\ Len(suggestions.history) >= 2
  /\ Len(suggestions.result) =
       Len(suggestions.files) + Len(suggestions.history) + 1

\* the directory the source would list for this input cannot be listed
ListingFails(input) == ~readdir(resolve(cwd, dirname(input))).ok

\* C18: when the partial input holds no path separator, or the directory it
\* names cannot be listed, the source returns the history candidates only
\* (each text once), and the prompt goes on: no error leaves the source.
C18_HistoryOnlyWithoutListing ==
  (/\ suggestions.called
   /\ \/ ~includesSeparator(suggestions.input)
      \/ ListingFails(suggestions.input)) =>
    /\ suggestions.files = << >>
    /\ suggestions.result = Dedup(suggestions.history)
    /\ \A i \in 1..Len(suggestions.result) :
         suggestions.result[i] # Separator
    /\ hpc = "prompt"

C18_Witness ==
  /\ suggestions.called
  /\ includesSeparator(suggestions.input)
  /\ ListingFails(suggestions.input)
  /\ suggestions.result # << >>
  /\ suggestions.result = suggestions.history
  /\ hpc = "prompt"

\* C19: the history gains exactly one entry, the question, when the remote
\* call of an Ask succeeds, and every other step (a failed Ask, CheckFile,
\* a call of the source, exit) leaves it as it is; entries already in it
\* are never removed or altered.
C19_HistoryGrowsOnlyOnAnsweredAsk ==
  [][ IF generateContentResolves /\ hturn.variant = "Ask"
        THEN \E k \in 1..Len(chatHistory') :
               /\ chatHistory'[k] = hturn.question
               /\ SubSeq(chatHistory', 1, k - 1)
                    \o SubSeq(chatHistory', k + 1, Len(chatHistory'))
                  = chatHistory
        ELSE chatHistory' = chatHistory ]_vars

C19_Witness ==
  /\ Len(chatHistory) >= 2
  /\ hturn.variant = "CheckFile"
  /\ hturn.outcome = "resolved"
  /\ hturn.caller = "chatMode"

\* ------------------------------------------------------------------------
\* Properties of what the overwrite reads, sends and keeps
\* ------------------------------------------------------------------------

\* this step is handleOverwrite sending its rewrite prompt
RewritePromptSent ==
  /\ chatModeOverwrite \/ confirmOverwrite
  /\ pc' = "remote"
  /\ handler' = "handleOverwrite"

\* C21: the rewrite prompt carries the content the analyzed file holds when
\* handleOverwrite is invoked, whatever the earlier CheckFile, Debug or
\* AddFileContext read from it.
C21_RewritePromptIsCurrent ==
  [][ RewritePromptSent =>
        /\ Last(calls').kind = "rewrite"
        /\ Last(calls').content = Utf8Decode(fs[lastAnalyzedFile].bytes)
        /\ content' = Last(calls').content ]_vars

\* debug read the file, the file was replaced while the analysis or the
\* confirmation was pending, and the rewrite prompt carries the new content
C21_Witness ==
  /\ pc = "remote"
  /\ handler = "handleOverwrite"
  /\ Len(calls) = 2
  /\ calls[1].kind = "debug"
  /\ calls[2].kind = "rewrite"
  /\ calls[1].content # calls[2].content
  /\ calls[2].content = Utf8Decode(fs[lastAnalyzedFile].bytes)

Letters ==
  {LowerChars[n] : n \in 1..Len(LowerChars)}
    \cup {UpperChars[n] : n \in 1..Len(UpperChars)}

\* a fenced block: an opening fence with a closing fence after it
HasFencedBlock(text) ==
  \E i \in 1..Len(text) :
    IsAt(text, i, Fence) /\ \E j \in (i + 3)..Len(text) : IsAt(text, j, Fence)

\* where the first fenced block opens
OpeningFence(text) ==
  Min({i \in 1..Len(text) :
         IsAt(text, i, Fence)
           /\ \E j \in (i + 3)..Len(text) : IsAt(text, j, Fence)})

\* the language tag of the first fenced block: the letters between the
\* opening fence and the end of its line
FenceTag(text) ==
  LET k    == OpeningFence(text) + 3
      runs == {n \in 0..(Len(text) - k) :
                 /\ \A m \in k..(k + n - 1) : text[m] \in Letters
                 /\ text[k + n] = "\n"}
  IN  IF runs = {} THEN << >> ELSE SubSeq(text, k, k + Min(runs) - 1)

\* the text between the opening fence line and the next fence
FenceBody(text) ==
  LET k     == OpeningFence(text) + 3 + Len(FenceTag(text))
      from  == IF text[k] = "\n" THEN k + 1 ELSE k
      close == Min({e \in from..Len(text) : IsAt(text, e, Fence)})
  IN  SubSeq(text, from, close - 1)

\* the code body the reply stands for
ExpectedBody(text) ==
  IF HasFencedBlock(text) THEN trim(FenceBody(text)) ELSE trim(text)

\* C22: the code body handleOverwrite previews and writes is, for a reply
\* with a fenced block, the text inside the first fence pair without the
\* fence markers and the language tag, trimmed; for a reply without one, the
\* whole reply trimmed.
C22_WrittenBodyIsFenceContent ==
  /\ pc = "confirmSave" => rewrittenCode = ExpectedBody(reply)
  /\ SaveSucceeded => Utf8Decode(fs[Target].bytes) = ExpectedBody(reply)

\* the tags for which the regular expression removes the whole tag
RemovedTags ==
  { << >> } \cup ({LanguageTags[n] : n \in 1..Len(LanguageTags)}
                  \ { <<"j","s","x">> })

\* the part of C22 that holds: replies without a fenced block, and fenced
\* blocks whose tag the regular expression removes
C22_BodyForRemovedTags ==
  (HasFencedBlock(reply) => FenceTag(reply) \in RemovedTags) =>
    /\ pc = "confirmSave" => rewrittenCode = ExpectedBody(reply)
    /\ SaveSucceeded => Utf8Decode(fs[Target].bytes) = ExpectedBody(reply)

\* this step is a confirmed save whose two writes succeed
SaveStep == confirmSave /\ SaveSucceeded'

\* C23: the backup of a confirmed overwrite holds the content handleOverwrite
\* read at its start, which is the content sent in the rewrite prompt; when
\* the file was given other content while the remote call or the
\* confirmation was pending, the backup does not hold what the file held
\* right before the overwrite write, and afterwards neither the file nor
\* the backup holds it.
C23_BackupHoldsContentRead ==
  [][ SaveStep =>
        /\ Last(calls).kind = "rewrite"
        /\ Last(calls).content = content
        /\ fs'[Backup] = File(Utf8Encode(content))
        /\ (fs[Target].kind = "file" /\ Utf8Decode(fs[Target].bytes) # content)
             => /\ fs'[Backup] # fs[Target]
                /\ fs'[Target] # fs[Target] ]_vars

\* the first overwrite of the sample: it was read as x, replaced by z while
\* the overwrite was pending, and z is gone after the save
C23_Witness ==
  /\ SaveSucceeded
  /\ cmd.variant = "Overwrite"
  /\ saved.count = 1
  /\ saved.first = File(<<"z">>)
  /\ content = <<"x">>
  /\ fs[Backup] = File(<<"x">>)
  /\ \A p \in FsPaths : fs[p] # File(<<"z">>)

AnalysisHandlers == {"checkFile", "debugFile", "addFileContext"}

\* the turn at the prompt was an analysis of a file whose remote call failed
FailedAnalysis ==
  /\ pc = "prompt"
  /\ cmd.variant \in {"CheckFile", "Debug", "AddFileContext"}
  /\ Len(calls) = 1
  /\ errors # << >>
  /\ Last(errors) \in {"Error analyzing file", "Error debugging file",
                        "Error adding file context"}

\* C24: checkFile, debugFile and the file command record the path before
\* the remote call is awaited, a failed call leaves the record as it is, and
\* an overwrite command that follows works on that file.
C24_PathKeptAfterFailedAnalysis ==
  [][ /\ (pc # "remote" /\ pc' = "remote" /\ handler' \in AnalysisHandlers)
           => lastAnalyzedFile' = pathResolve(Last(calls').file)
      /\ (sendMessageRejects /\ handler \in AnalysisHandlers)
           => /\ lastAnalyzedFile' = lastAnalyzedFile
              /\ lastAnalyzedFile = pathResolve(Last(calls).file)
      /\ (FailedAnalysis /\ chatModeOverwrite)
           => LET analyzed == pathResolve(calls[1].file)
              IN  /\ lastAnalyzedFile' = analyzed
                  /\ handler' = "handleOverwrite"
                  /\ Readable(analyzed) =>
                       /\ pc' = "remote"
                       /\ Last(calls') =
                            Message("rewrite", basename(analyzed),
                                    readFileSync(analyzed)) ]_vars

\* a checkfile typed in the session read the sample, its remote call
\* failed, and the session is back at the prompt with the path recorded
C24_Witness ==
  /\ FailedAnalysis
  /\ cmd.variant = "CheckFile"
  /\ cmd.line # << >>
  /\ lastAnalyzedFile = SamplePath
  /\ Readable(SamplePath)
  /\ ENABLED chatModeOverwrite

\* C25: a confirmed overwrite replaces whatever the backup held.  After a
\* second overwrite of the file the backup holds the content the file had
\* just before that overwrite, and the content the file had before the first
\* overwrite, unless it is that content or the rewritten code again, is held
\* by no file.
C25_BackupReplacedEachTime ==
  [][ SaveStep =>
        /\ fs'[Backup] = File(Utf8Encode(content))
        /\ fs'[Target] = File(Utf8Encode(rewrittenCode))
        /\ saved.count >= 1 =>
             /\ (cmd.variant = "Overwrite" /\ ~envTouched)
                  => fs'[Backup] = fsStart[Target]
             /\ (/\ saved.first.kind = "file"
                 /\ Utf8Decode(saved.first.bytes) # content
                 /\ Utf8Decode(saved.first.bytes) # rewrittenCode)
                  => \A p \in FsPaths : fs'[p] # saved.first ]_vars

\* the sample held x, was overwritten twice with nothing else touching it:
\* the backup holds what the file held before the second overwrite and x is
\* in no file although the first backup held it
C25_Witness ==
  /\ SaveSucceeded
  /\ cmd.variant = "Overwrite"
  /\ ~envTouched
  /\ saved.count = 2
  /\ saved.first = File(<<"x">>)
  /\ fsStart[Backup] = File(<<"x">>)
  /\ fs[Backup] = fsStart[Target]
  /\ \A p \in FsPaths : fs[p] # File(<<"x">>)

\* C20: every write of the session goes to the recorded analyzed file or to
\* its ".backup" sibling, inside a confirmed save; CheckFile, AddFileContext
\* and Ask turns, and Debug turns without a confirmed save, leave every file
\* as it was (other processes aside).
C20_OnlyTargetAndBackupWritten ==
  /\ \A i \in 1..Len(writes) :
       /\ writes[i].path \in {Target, Backup}
       /\ shouldSave = "yes"
       /\ handler = "handleOverwrite"
  /\ ~envTouched =>
       /\ \A p \in FsPaths :
            fs[p] # fsStart[p] =>
              /\ lastAnalyzedFile # NoFile
              /\ p \in {Target, Backup}
              /\ \E i \in 1..Len(writes) : writes[i].path = p
       /\ cmd.variant \in {"CheckFile", "AddFileContext", "Ask", "Exit"} =>
            fs = fsStart
       /\ (cmd.variant = "Debug" /\ shouldSave # "yes") => fs = fsStart

\* a confirmed save changed the analyzed file and created its backup
C20_Witness ==
  /\ SaveSucceeded
  /\ ~envTouched
  /\ fs[Target] # fsStart[Target]
  /\ fs[Backup] # fsStart[Backup]
  /\ fs[MissingPath] = fsStart[MissingPath]

====
